---- MODULE Spec2Model ----
(***************************************************************************)
(* Model of the itch.io publishing scripts:                                *)
(*   scripts/publish.js        the butler publish run (specification Spec) *)
(*   scripts/godot-export.js   the Godot build scanner                      *)
(*   scripts/renpy-publish.js  the Ren'Py build scanner                     *)
(* The two scanners are run under SpecScan (a whole scan of a build root)  *)
(* and SpecClassify (detectPlatform applied to one directory listing).     *)
(*                                                                         *)
(* File and directory names are tuples of one-character strings, so that   *)
(* endsWith / includes / toLowerCase are computed character by character.  *)
(***************************************************************************)
EXTENDS Integers, Sequences, FiniteSets, TLC

VARIABLES
    \* ---- publish.js ----
    pc,         \* position of main() in publish.js
    cfgFile,    \* what process.argv[2] leads to: "noArg", "notFound", "badJson", "ok"
    config,     \* the parsed config.json
    butlerOk,   \* whether `butler -v` can be run
    dryRun,     \* process.argv.includes('--dry-run')
    idx,        \* number of channels the for loop has gone through
    results,    \* main's results array: <<[channel, success], ...>>
    probes,     \* what fs.existsSync answered for each channel's source path
    execLog,    \* every execSync call that has returned or thrown: <<[call, cmd, outcome], ...>>
    inFlight,   \* the execSync calls whose child process has not ended yet
    out,        \* the summary lines logged
    exitCode,   \* "running", "exit0" or "exit1": the exit code of the process
    \* ---- godot-export.js / renpy-publish.js ----
    engine,     \* "godot" or "renpy": which script runs
    sPc,        \* position of main() in the scanner script
    sArgs,      \* [buildDir, target]: whether process.argv[2], [3] are given
    rootExists, \* fs.existsSync(buildDir)
    rootIsDir,  \* whether buildDir can be read as a directory
    children,   \* fs.readdirSync(buildDir), in enumeration order
    sIdx,       \* number of entries the scan loop has gone through
    platforms,  \* the platforms / builds object, as its entries in key order
    scanLog,    \* the line logged for each scanned entry
    cmdOut,     \* the lines generateCommands prints
    sExit,      \* "running", "exit0" or "exit1": the exit code of the process
    \* ---- detectPlatform alone ----
    cDir,       \* the directory handed to detectPlatform
    cResult     \* "pending", or what detectPlatform returned

pubVars  == <<pc, cfgFile, config, butlerOk, dryRun, idx, results, probes, execLog, inFlight,
              out, exitCode>>
scanVars == <<sPc, sArgs, rootExists, rootIsDir, children, sIdx, platforms, scanLog, cmdOut, sExit>>
clsVars  == <<cDir, cResult>>
vars     == <<pubVars, engine, scanVars, clsVars>>

Null == "null"

----------------------------------------------------------------------------
(* Bounds of the model *)

MaxFiles    == 3   \* entries of a directory handed to detectPlatform
MaxDirs     == 3   \* children of a scanned build root
MaxChannels == 3   \* channels of a config.json
MaxIgnore   == 2   \* ignore patterns of a config.json
MaxInFlight == 2   \* child processes the model lets run at once

----------------------------------------------------------------------------
(* JavaScript string operations on names *)

Min(S) == CHOOSE m \in S : \A n \in S : m <= n

LowerOf ==
    [c \in {"A","B","C","D","I","L","M","N","U","W","X"} |->
        CASE c = "A" -> "a" [] c = "B" -> "b" [] c = "C" -> "c" [] c = "D" -> "d"
          [] c = "I" -> "i" [] c = "L" -> "l" [] c = "M" -> "m" [] c = "N" -> "n"
          [] c = "U" -> "u" [] c = "W" -> "w" [] c = "X" -> "x"]

\* String.prototype.toLowerCase
ToLowerCase(s) ==
    [i \in 1..Len(s) |-> IF s[i] \in DOMAIN LowerOf THEN LowerOf[s[i]] ELSE s[i]]

\* String.prototype.endsWith
EndsWith(s, suf) ==
    /\ Len(suf) <= Len(s)
    /\ SubSeq(s, Len(s) - Len(suf) + 1, Len(s)) = suf

\* String.prototype.includes
Includes(s, sub) ==
    \E i \in 1..(Len(s) - Len(sub) + 1) : SubSeq(s, i, i + Len(sub) - 1) = sub

\* path.join(dir, f) for a plain name f
PathJoin(dir, f) == dir \o <<"/">> \o f

\* path.basename(p)
Basename(p) ==
    LET slashes == {i \in 1..Len(p) : p[i] = "/"}
    IN  IF slashes = {} THEN p
        ELSE LET last == CHOOSE i \in slashes : \A j \in slashes : j <= i
             IN  SubSeq(p, last + 1, Len(p))

\* what find returns when nothing matches (undefined); no file has the empty name
NoFile == <<>>

\* files.find(f => f.endsWith(suf)): the first such name, or undefined
FindEndsWith(files, suf) ==
    LET hits == {i \in 1..Len(files) : EndsWith(files[i], suf)}
    IN  IF hits = {} THEN NoFile ELSE files[Min(hits)]

\* files.some(f => f.endsWith(suf))
SomeEndsWith(files, suf) == \E i \in 1..Len(files) : EndsWith(files[i], suf)

\* files.includes(name)
ArrayIncludes(files, name) == \E i \in 1..Len(files) : files[i] = name

ExtExe == <<".","e","x","e">>
ExtApp == <<".","a","p","p">>
ExtZip == <<".","z","i","p">>
ExtApk == <<".","a","p","k">>
ExtAab == <<".","a","a","b">>
StrIndexHtml == <<"i","n","d","e","x",".","h","t","m","l">>
StrMac == <<"m","a","c">>
StrDashMac == <<"-","m","a","c">>
StrOsx == <<"o","s","x">>
StrLinux == <<"l","i","n","u","x">>
StrWebZip == <<"w","e","b",".","z","i","p">>
StrWin == <<"w","i","n">>
StrWeb == <<"w","e","b">>
StrDot == <<".">>

----------------------------------------------------------------------------
(* A directory is [name, entries]; an entry is [name, isFile]:              *)
(* fs.readdirSync(dir) is the sequence of the entries' names and           *)
(* fs.statSync(path.join(dir, f)).isFile() is the entry's isFile.          *)

Names(entries) == [i \in 1..Len(entries) |-> entries[i].name]


----------------------------------------------------------------------------
(* godot-export.js: PLATFORMS and detectPlatform *)

\* Object.keys(PLATFORMS), in declaration order
GodotPlatformOrder == <<"windows", "linux", "macos", "web", "android">>

GodotChannel(plat) ==
    CASE plat = "windows" -> "windows"
      [] plat = "linux"   -> "linux"
      [] plat = "macos"   -> "osx"
      [] plat = "web"     -> "html5"
      [] plat = "android" -> "android"

\* the .app / .zip block: true when it returns 'macos'
GodotMacCheck(files) ==
    /\ SomeEndsWith(files, ExtApp) \/ SomeEndsWith(files, ExtZip)
    /\ LET zip == FindEndsWith(files, ExtZip)
           app == FindEndsWith(files, ExtApp)
       IN  \/ zip # NoFile /\ (Includes(zip, StrMac) \/ Includes(zip, StrOsx))
           \/ app # NoFile

\* a plausible slip: the isFile() test left out
GodotExecutablesNoStat(entries) ==
    {i \in 1..Len(entries) : ~Includes(entries[i].name, StrDot)}

\* files.filter(f => !f.includes('.') && statSync(join(dir, f)).isFile()), as indexes
GodotExecutables(entries) ==
    {i \in 1..Len(entries) : ~Includes(entries[i].name, StrDot) /\ entries[i].isFile}

GodotDetectPlatform(dir) ==
    LET files == Names(dir.entries)
    IN  IF ArrayIncludes(files, StrIndexHtml) THEN "web"
        ELSE IF SomeEndsWith(files, ExtExe) THEN "windows"
        ELSE IF GodotMacCheck(files) THEN "macos"
        ELSE IF \E i \in 1..Len(files) : EndsWith(files[i], ExtApk) \/ EndsWith(files[i], ExtAab)
             THEN "android"
        ELSE IF Cardinality(GodotExecutables(dir.entries)) > 0 THEN "linux"
        ELSE Null

----------------------------------------------------------------------------
(* renpy-publish.js: PLATFORMS and detectPlatform *)

\* Object.entries(PLATFORMS), in declaration order
RenpyPlatformOrder == <<"pc", "mac", "linux", "web">>

RenpyChannel(plat) ==
    CASE plat = "pc"    -> "windows"
      [] plat = "mac"   -> "osx"
      [] plat = "linux" -> "linux"
      [] plat = "web"   -> "html5"

\* PLATFORMS[plat].check(files)
RenpyCheck(plat, files) ==
    CASE plat = "pc" ->
            \E i \in 1..Len(files) : EndsWith(files[i], ExtExe) /\ ~Includes(files[i], StrMac)
      [] plat = "mac" ->
            \E i \in 1..Len(files) :
                \/ EndsWith(files[i], ExtApp)
                \/ Includes(files[i], StrMac)
                \/ Includes(files[i], StrDashMac)
      [] plat = "linux" ->
            \E i \in 1..Len(files) :
                Includes(ToLowerCase(files[i]), StrLinux) /\ ~Includes(files[i], ExtExe)
      [] plat = "web" ->
            ArrayIncludes(files, StrIndexHtml) \/ SomeEndsWith(files, StrWebZip)

\* a plausible slip: the hints tried in the opposite order
RenpyNameHintWebFirst(dirPath) ==
    LET name == ToLowerCase(Basename(dirPath))
    IN  IF Includes(name, StrWeb) THEN "web"
        ELSE IF Includes(name, StrLinux) THEN "linux"
        ELSE IF Includes(name, StrMac) THEN "mac"
        ELSE IF Includes(name, StrWin) THEN "pc"
        ELSE Null

\* the directory-name hints after the loop
RenpyNameHint(dirPath) ==
    LET name == ToLowerCase(Basename(dirPath))
    IN  IF Includes(name, StrWin) THEN "pc"
        ELSE IF Includes(name, StrMac) THEN "mac"
        ELSE IF Includes(name, StrLinux) THEN "linux"
        ELSE IF Includes(name, StrWeb) THEN "web"
        ELSE Null

RenpyDetectPlatform(dir) ==
    LET files == Names(dir.entries)
        hits  == {k \in 1..Len(RenpyPlatformOrder) : RenpyCheck(RenpyPlatformOrder[k], files)}
    IN  IF hits # {} THEN RenpyPlatformOrder[Min(hits)]
        ELSE RenpyNameHint(dir.path)

DetectPlatform(eng, dir) ==
    IF eng = "godot" THEN GodotDetectPlatform(dir) ELSE RenpyDetectPlatform(dir)

ChannelOf(eng, plat) ==
    IF eng = "godot" THEN GodotChannel(plat) ELSE RenpyChannel(plat)

----------------------------------------------------------------------------
(* Directory contents the model draws from *)

FIndexHtml  == <<"i","n","d","e","x",".","h","t","m","l">>
FGameExe    == <<"g","a","m","e",".","e","x","e">>
FGameApp    == <<"g","a","m","e",".","a","p","p">>
FDataZip    == <<"d","a","t","a",".","z","i","p">>
FGameMacZip == <<"g","a","m","e","-","m","a","c",".","z","i","p">>
FGameApk    == <<"g","a","m","e",".","a","p","k">>
FGame       == <<"g","a","m","e">>
FLib        == <<"l","i","b">>
FReadme     == <<"r","e","a","d","m","e",".","t","x","t">>
FLinuxTar   == <<"L","i","n","u","x",".","t","a","r">>
FWebZip     == <<"w","e","b",".","z","i","p">>
FMacExe     == <<"m","a","c",".","e","x","e">>

File(n)   == [name |-> n, isFile |-> TRUE]
SubDir(n) == [name |-> n, isFile |-> FALSE]

EntryPool ==
    { File(FIndexHtml), File(FGameExe), SubDir(FGameApp), File(FDataZip),
      File(FGameMacZip), File(FGameApk), File(FGame), SubDir(FLib),
      File(FReadme), File(FLinuxTar), File(FWebZip), File(FMacExe) }

\* the listings of at most n distinct entries, in every enumeration order
Listings(n) ==
    UNION { { s \in [1..k -> EntryPool] : \A i, j \in 1..k : i # j => s[i] # s[j] } : k \in 0..n }

RootBuild == <<".","/","b","u","i","l","d">>
DWindows  == <<"w","i","n","d","o","w","s">>
DWeb      == <<"w","e","b">>
DNotes    == <<"n","o","t","e","s">>
DWin64    == <<"W","I","N","6","4">>
DLinux    == <<"l","i","n","u","x">>
DMacBuild == <<"M","a","c","B","u","i","l","d">>
DOut      == <<"o","u","t">>
DWebWin   == <<"w","e","b","-","w","i","n">>

DirNamePool == {DWindows, DWeb, DNotes, DWin64, DLinux, DMacBuild, DOut, DWebWin}

Engines == {"godot", "renpy"}

----------------------------------------------------------------------------
(* Idle values of the variables a specification does not use *)

PubIdle ==
    /\ pc = "idle" /\ cfgFile = "noArg" /\ config = "none" /\ butlerOk = FALSE
    /\ dryRun = FALSE /\ idx = 0 /\ results = <<>> /\ probes = <<>>
    /\ execLog = <<>> /\ inFlight = <<>> /\ out = <<>> /\ exitCode = "running"

ScanIdle ==
    /\ sPc = "idle" /\ sArgs = "none" /\ rootExists = FALSE /\ rootIsDir = FALSE
    /\ children = <<>>
    /\ sIdx = 0 /\ platforms = <<>> /\ scanLog = <<>> /\ cmdOut = <<>>
    /\ sExit = "running"

ClsIdle == cDir = <<>> /\ cResult = "idle"

----------------------------------------------------------------------------
(* SpecClassify: detectPlatform applied to one directory *)

ClsInit ==
    /\ PubIdle /\ ScanIdle
    /\ engine \in Engines
    /\ \E n \in DirNamePool, es \in Listings(MaxFiles) :
          cDir = [path |-> PathJoin(RootBuild, n), entries |-> es]
    /\ cResult = "pending"

ClassifyGodot ==
    /\ engine = "godot" /\ cResult = "pending"
    /\ cResult' = GodotDetectPlatform(cDir)
    /\ UNCHANGED <<pubVars, engine, scanVars, cDir>>

ClassifyRenpy ==
    /\ engine = "renpy" /\ cResult = "pending"
    /\ cResult' = RenpyDetectPlatform(cDir)
    /\ UNCHANGED <<pubVars, engine, scanVars, cDir>>

ClsNext == ClassifyGodot \/ ClassifyRenpy

SpecClassify == ClsInit /\ [][ClsNext]_vars

----------------------------------------------------------------------------
(* godot-export.js scanBuildDir / renpy-publish.js scanBuilds,             *)
(* generateCommands and main                                               *)

\* A child of the build root is [name, isDirectory, entries].
Child(n, es) == [name |-> n, isDirectory |-> TRUE, entries |-> es]
FNotesTxt == <<"n","o","t","e","s",".","t","x","t">>

ChildPool ==
    { Child(DWindows,  <<File(FGameExe)>>),
      Child(DWeb,      <<File(FIndexHtml)>>),
      Child(DNotes,    <<File(FReadme)>>),
      Child(DWin64,    <<File(FGameExe), File(FGame)>>),
      Child(DLinux,    <<File(FGame)>>),
      Child(DMacBuild, <<SubDir(FGameApp)>>),
      Child(DOut,      <<File(FGameApk)>>),
      [name |-> FNotesTxt, isDirectory |-> FALSE, entries |-> <<>>] }

\* the build roots of at most n distinct children, in every enumeration order
Roots(n) ==
    UNION { { s \in [1..k -> ChildPool] : \A i, j \in 1..k : i # j => s[i] # s[j] } : k \in 0..n }

BuildDir == RootBuild          \* process.argv[2]
Target   == "alice/mygame"     \* process.argv[3]

RECURSIVE FilterDirectories(_)
\* Array.prototype.filter(f => fs.statSync(f).isDirectory())
FilterDirectories(s) ==
    IF s = <<>> THEN <<>>
    ELSE IF s[1].isDirectory
         THEN <<s[1]>> \o FilterDirectories(Tail(s))
         ELSE FilterDirectories(Tail(s))

\* readdirSync(buildDir).map(f => path.join(buildDir, f)).filter(isDirectory):
\* each entry with the listing detectPlatform will read for it
DirEntries(kids) ==
    LET ds == FilterDirectories(kids)
    IN  [i \in 1..Len(ds) |-> [path |-> PathJoin(BuildDir, ds[i].name), entries |-> ds[i].entries]]

\* a plausible slip: a key set again moves to the end of the object
ObjSetMoveLast(obj, k, v) ==
    LET rest == SelectSeq(obj, LAMBDA e : e.key # k)
    IN  Append(rest, [key |-> k, value |-> v])

\* a plausible slip: every assignment adds an entry
ObjSetAppend(obj, k, v) == Append(obj, [key |-> k, value |-> v])

\* a plausible slip: a key already present keeps its value
ObjSetKeepFirst(obj, k, v) ==
    IF \E i \in 1..Len(obj) : obj[i].key = k
    THEN obj
    ELSE Append(obj, [key |-> k, value |-> v])

\* obj[k] = v on an object held as its entries in key (insertion) order
ObjSet(obj, k, v) ==
    IF \E i \in 1..Len(obj) : obj[i].key = k
    THEN [i \in 1..Len(obj) |-> IF obj[i].key = k THEN [key |-> k, value |-> v] ELSE obj[i]]
    ELSE Append(obj, [key |-> k, value |-> v])

\* the name the loop prints: godot lower-cases the basename, renpy does not
LoggedName(eng, entry) ==
    IF eng = "godot" THEN ToLowerCase(Basename(entry.path)) ELSE Basename(entry.path)

\* a plausible slip: an unmatched directory empties the object
ScanStepObjResetOnUnknown(eng, obj, entry) ==
    LET platform == DetectPlatform(eng, entry)
    IN  IF platform # Null THEN ObjSet(obj, platform, entry.path) ELSE <<>>

\* one iteration of the for loop over entries: the new platforms object
ScanStepObj(eng, obj, entry) ==
    LET platform == DetectPlatform(eng, entry)
    IN  IF platform # Null THEN ObjSet(obj, platform, entry.path) ELSE obj

\* one iteration of the for loop over entries: the line it prints
ScanStepLine(eng, entry) ==
    LET platform == DetectPlatform(eng, entry)
    IN  IF platform # Null
        THEN [kind |-> "matched", platform |-> platform, name |-> LoggedName(eng, entry)]
        ELSE [kind |-> "unknown", platform |-> Null, name |-> LoggedName(eng, entry)]

RECURSIVE ScanAll(_, _, _)
\* the whole loop: the object returned for the entries, starting from obj
ScanAll(eng, obj, entries) ==
    IF entries = <<>> THEN obj
    ELSE ScanAll(eng, ScanStepObj(eng, obj, entries[1]), Tail(entries))

\* a plausible slip: the status line printed ahead of the push lines
GenerateCommandsStatusFirst(eng, obj, target) ==
    <<[kind |-> "text"], [kind |-> "status", dest |-> <<target>>]>>
    \o [i \in 1..Len(obj) |->
          [kind |-> "push", src |-> obj[i].value,
           dest |-> <<target, ":", ChannelOf(eng, obj[i].key)>>]]

\* generateCommands: the lines printed
GenerateCommands(eng, obj, target) ==
    <<[kind |-> "text"]>>
    \o [i \in 1..Len(obj) |->
          [kind |-> "push", src |-> obj[i].value,
           dest |-> <<target, ":", ChannelOf(eng, obj[i].key)>>]]
    \o <<[kind |-> "text"], [kind |-> "status", dest |-> <<target>>]>>
    \o (IF eng = "renpy" THEN <<[kind |-> "text"], [kind |-> "text"]>> ELSE <<>>)

ScanInit ==
    /\ PubIdle /\ ClsIdle
    /\ engine \in Engines
    /\ sPc = "args"
    /\ sArgs \in [buildDir : BOOLEAN, target : BOOLEAN]
    /\ rootExists \in BOOLEAN
    /\ rootIsDir \in (IF rootExists THEN BOOLEAN ELSE {FALSE})
    /\ children \in (IF rootIsDir THEN Roots(MaxDirs) ELSE {<<>>})
    /\ sIdx = 0 /\ platforms = <<>> /\ scanLog = <<>> /\ cmdOut = <<>>
    /\ sExit = "running"

\* if (!buildDir || !target) { usage; process.exit(1) }
SCheckArgs ==
    /\ sPc = "args"
    /\ IF ~sArgs.buildDir \/ ~sArgs.target
       THEN sPc' = "done" /\ sExit' = "exit1"
       ELSE sPc' = "exists" /\ sExit' = sExit
    /\ UNCHANGED <<pubVars, engine, clsVars, sArgs, rootExists, rootIsDir, children, sIdx,
                   platforms, scanLog, cmdOut>>

\* if (!fs.existsSync(buildDir)) process.exit(1)
SCheckRoot ==
    /\ sPc = "exists"
    /\ IF ~rootExists
       THEN sPc' = "done" /\ sExit' = "exit1"
       ELSE sPc' = "read" /\ sExit' = sExit
    /\ UNCHANGED <<pubVars, engine, clsVars, sArgs, rootExists, rootIsDir, children, sIdx,
                   platforms, scanLog, cmdOut>>

\* scanBuildDir / scanBuilds starts: fs.readdirSync(buildDir) throws when
\* buildDir is not a directory; nothing catches it and node ends with code 1
SReadRoot ==
    /\ sPc = "read"
    /\ IF ~rootIsDir
       THEN sPc' = "done" /\ sExit' = "exit1"
       ELSE sPc' = "scan" /\ sExit' = sExit
    /\ UNCHANGED <<pubVars, engine, clsVars, sArgs, rootExists, rootIsDir, children, sIdx,
                   platforms, scanLog, cmdOut>>

\* one iteration of the loop of scanBuildDir / scanBuilds
ScanEntry ==
    /\ sPc = "scan"
    /\ sIdx < Len(DirEntries(children))
    /\ LET entry == DirEntries(children)[sIdx + 1]
       IN  /\ platforms' = ScanStepObj(engine, platforms, entry)
           /\ scanLog' = Append(scanLog, ScanStepLine(engine, entry))
    /\ sIdx' = sIdx + 1
    /\ UNCHANGED <<pubVars, engine, clsVars, sPc, sArgs, rootExists, rootIsDir, children, cmdOut, sExit>>

\* a plausible slip: the test for an empty scan left out
NoneDetectedNever(obj) == FALSE

\* Object.keys(platforms).length === 0
NoneDetected(obj) == Len(obj) = 0

\* the loop is over: if (Object.keys(platforms).length === 0) process.exit(1);
\* otherwise generateCommands(platforms, target) and the script ends
SFinish ==
    /\ sPc = "scan"
    /\ sIdx = Len(DirEntries(children))
    /\ IF NoneDetected(platforms)
       THEN cmdOut' = cmdOut /\ sExit' = "exit1"
       ELSE cmdOut' = GenerateCommands(engine, platforms, Target) /\ sExit' = "exit0"
    /\ sPc' = "done"
    /\ UNCHANGED <<pubVars, engine, clsVars, sArgs, rootExists, rootIsDir, children, sIdx,
                   platforms, scanLog>>

ScanNext == SCheckArgs \/ SCheckRoot \/ SReadRoot \/ ScanEntry \/ SFinish

SpecScan == ScanInit /\ [][ScanNext]_vars

----------------------------------------------------------------------------
(* publish.js *)

ChannelPool == {"html5", "windows", "osx", "linux"}

\* the source path config.channels gives each channel (the documented example)
SourcePathOf(channel) ==
    CASE channel = "html5"   -> "./dist"
      [] channel = "windows" -> "./build/windows"
      [] channel = "osx"     -> "./build/mac"
      [] channel = "linux"   -> "./build/linux"

\* Object.entries(config.channels): distinct keys, in key order
ChannelLists(n) ==
    UNION { { [i \in 1..k |-> [channel |-> s[i], sourcePath |-> SourcePathOf(s[i])]] :
                s \in { t \in [1..k -> ChannelPool] : \A i, j \in 1..k : i # j => t[i] # t[j] } }
            : k \in 0..n }

PatternPool == {"*.map", "node_modules/**"}

IgnoreLists(n) ==
    UNION { { s \in [1..k -> PatternPool] : \A i, j \in 1..k : i # j => s[i] # s[j] } : k \in 0..n }

\* config.ignore: absent, or an array of patterns
NoIgnore == [given |-> FALSE, patterns |-> <<>>]

\* config.json as parsed; Null stands for a field that is absent
Configs ==
    [ user     : {"alice", Null},
      game     : {"mygame", Null},
      channels : ChannelLists(MaxChannels),
      version  : {"1.0.0", Null},
      ignore   : {NoIgnore} \cup { [given |-> TRUE, patterns |-> l] : l \in IgnoreLists(MaxIgnore) } ]

NoConfig == [user |-> Null, game |-> Null, channels |-> <<>>, version |-> Null, ignore |-> NoIgnore]

\* how an execSync call can end: exit status 0, a non-zero exit status, or the
\* tool could not be started; execSync throws in the last two
ExecOutcomes == {"zero", "nonzero", "notStarted"}

Init ==
    /\ ScanIdle /\ ClsIdle /\ engine = "godot"
    /\ pc = "args"
    /\ \/ cfgFile \in {"noArg", "notFound", "badJson"} /\ config = NoConfig
       \/ cfgFile = "ok" /\ config \in Configs
    /\ butlerOk \in BOOLEAN
    /\ dryRun \in BOOLEAN
    /\ idx = 0 /\ results = <<>> /\ probes = <<>> /\ execLog = <<>> /\ out = <<>>
    /\ inFlight = <<>>
    /\ exitCode = "running"

\* `${user}/${game}:${channel}`
PushTarget(user, game, channel) == user \o "/" \o game \o ":" \o channel

\* a plausible slip: the --dry-run flag is never added
BuildCmdNoDryRun(user, game, channel, sourcePath, opts) ==
    <<"butler push \"" \o sourcePath \o "\" \"" \o PushTarget(user, game, channel) \o "\"">>
    \o (IF opts.version # Null THEN <<" --userversion \"" \o opts.version \o "\"">> ELSE <<>>)
    \o (IF opts.ignore.given
        THEN [i \in 1..Len(opts.ignore.patterns) |->
                 " --ignore \"" \o opts.ignore.patterns[i] \o "\""]
        ELSE <<>>)

\* a plausible slip: only the first ignore pattern is added
BuildCmdFirstIgnore(user, game, channel, sourcePath, opts) ==
    <<"butler push \"" \o sourcePath \o "\" \"" \o PushTarget(user, game, channel) \o "\"">>
    \o (IF opts.version # Null THEN <<" --userversion \"" \o opts.version \o "\"">> ELSE <<>>)
    \o (IF opts.dryRun THEN <<" --dry-run">> ELSE <<>>)
    \o (IF opts.ignore.given /\ Len(opts.ignore.patterns) > 0
        THEN <<" --ignore \"" \o opts.ignore.patterns[1] \o "\"">>
        ELSE <<>>)

\* the command line pushChannel builds, as the pieces it appends to cmd in order
BuildCmd(user, game, channel, sourcePath, opts) ==
    <<"butler push \"" \o sourcePath \o "\" \"" \o PushTarget(user, game, channel) \o "\"">>
    \o (IF opts.version # Null THEN <<" --userversion \"" \o opts.version \o "\"">> ELSE <<>>)
    \o (IF opts.dryRun THEN <<" --dry-run">> ELSE <<>>)
    \o (IF opts.ignore.given
        THEN [i \in 1..Len(opts.ignore.patterns) |->
                 " --ignore \"" \o opts.ignore.patterns[i] \o "\""]
        ELSE <<>>)

\* a plausible slip: no try / catch around run(cmd), so its throw leaves pushChannel
PushChannelReturnNoCatch(exists, outcome) ==
    IF ~exists THEN "false"
    ELSE IF outcome = "zero" THEN "true" ELSE "throw"

\* a plausible slip: a missing source path raised as an exception
PushChannelReturnThrowOnMissing(exists, outcome) ==
    IF ~exists THEN "throw"
    ELSE IF outcome = "zero" THEN "true" ELSE "false"

\* a plausible slip: success reported whatever the tool's exit status
PushChannelReturnIgnoreExit(exists, outcome) ==
    IF ~exists THEN "false" ELSE "true"

\* how pushChannel ends: it returns false for a missing source path; otherwise
\* run(cmd) throws unless the exit status is 0, and the catch turns a throw
\* into a returned false ("throw" would be an exception leaving pushChannel)
PushChannelReturn(exists, outcome) ==
    IF ~exists THEN "false"
    ELSE IF outcome = "zero" THEN "true" ELSE "false"

\* a plausible slip: the command is run even when the source path is missing
PushLaunchesAlways(exists) == TRUE

\* whether pushChannel reaches run(cmd)
PushLaunches(exists) == exists

\* a plausible slip: a failed channel is left out of results
RecordResultDropFailed(res, channel, success) ==
    IF success THEN Append(res, [channel |-> channel, success |-> success]) ELSE res

\* results.push({ channel, success })
RecordResult(res, channel, success) ==
    Append(res, [channel |-> channel, success |-> success])

\* the lines of results.forEach(r => log(`${r.channel}: ...`))
SummaryLines(res) ==
    [i \in 1..Len(res) |->
        [channel |-> res[i].channel,
         text    |-> IF res[i].success THEN "OK" ELSE "FAILED"]]

\* process.exit(1)
Exit1 == pc' = "done" /\ exitCode' = "exit1"

\* if (!configPath) { usage; process.exit(1) }
PCheckArgs ==
    /\ pc = "args"
    /\ IF cfgFile = "noArg" THEN Exit1 ELSE pc' = "exists" /\ exitCode' = exitCode
    /\ UNCHANGED <<cfgFile, config, butlerOk, dryRun, inFlight, idx, results, probes, execLog, out,
                   engine, scanVars, clsVars>>

\* if (!fs.existsSync(configPath)) process.exit(1)
PCheckFile ==
    /\ pc = "exists"
    /\ IF cfgFile = "notFound" THEN Exit1 ELSE pc' = "parse" /\ exitCode' = exitCode
    /\ UNCHANGED <<cfgFile, config, butlerOk, dryRun, inFlight, idx, results, probes, execLog, out,
                   engine, scanVars, clsVars>>

\* JSON.parse (a throw reaches main().catch: process.exit(1)), then
\* if (!config.user || !config.game) process.exit(1)
PParse ==
    /\ pc = "parse"
    /\ IF cfgFile = "badJson" \/ config.user = Null \/ config.game = Null
       THEN Exit1
       ELSE pc' = "butler" /\ exitCode' = exitCode
    /\ UNCHANGED <<cfgFile, config, butlerOk, dryRun, inFlight, idx, results, probes, execLog, out,
                   engine, scanVars, clsVars>>

\* a plausible slip: the child started without waiting for it to end
RunNoWait(waitLabel, label) == label

\* run: execSync returns or throws only when the child has ended, so main
\* stays at the call until then
Run(waitLabel, label) == waitLabel

\* run(cmd) up to the start of the child process
Launch(call, exists, waitLabel) ==
    /\ Len(inFlight) < MaxInFlight
    /\ inFlight' = Append(inFlight, [call |-> call, exists |-> exists])
    /\ pc' = Run(waitLabel, pc)

\* a plausible slip: no look at the result of `butler -v`
CheckButlerAlways(outcome) == TRUE

\* checkButler: true when run('butler -v') returns, false when it throws
CheckButler(outcome) == outcome = "zero"

\* checkButler starts `butler -v`
PButlerStart ==
    /\ pc = "butler"
    /\ Launch("version", TRUE, "butlerWait")
    /\ UNCHANGED <<cfgFile, config, butlerOk, dryRun, idx, results, probes, execLog, out,
                   exitCode, engine, scanVars, clsVars>>

\* `butler -v` has ended: if (!checkButler()) process.exit(1)
PCheckButler ==
    /\ pc = "butlerWait" /\ inFlight # <<>>
    /\ inFlight' = Tail(inFlight)
    /\ \E outcome \in (IF butlerOk THEN {"zero"} ELSE {"nonzero", "notStarted"}) :
          /\ execLog' = Append(execLog, [call |-> "version", cmd |-> <<"butler -v">>,
                                         outcome |-> outcome])
          /\ IF ~CheckButler(outcome)
             THEN Exit1
             ELSE pc' = "channels" /\ exitCode' = exitCode
    /\ UNCHANGED <<cfgFile, config, butlerOk, dryRun, idx, results, probes, out,
                   engine, scanVars, clsVars>>

\* a plausible slip: the test for an empty channel list left out
NoChannelsNever(chs) == FALSE

\* channels.length === 0
NoChannels(chs) == Len(chs) = 0

\* const channels = Object.entries(config.channels || {});
\* if (channels.length === 0) process.exit(1)
PChannels ==
    /\ pc = "channels"
    /\ IF NoChannels(config.channels) THEN Exit1 ELSE pc' = "push" /\ exitCode' = exitCode
    /\ UNCHANGED <<cfgFile, config, butlerOk, dryRun, inFlight, idx, results, probes, execLog, out,
                   engine, scanVars, clsVars>>

\* pushChannel returns or throws, and main goes on: results.push and the next
\* iteration; an exception leaving pushChannel would reject main:
\* main().catch, process.exit(1)
PushChannelEnds(exists, outcome) ==
    LET c    == config.channels[idx + 1]
        opts == [version |-> config.version, ignore |-> config.ignore, dryRun |-> dryRun]
        cmd  == BuildCmd(config.user, config.game, c.channel, c.sourcePath, opts)
        ret  == PushChannelReturn(exists, outcome)
    IN  /\ probes' = Append(probes, [channel |-> c.channel, exists |-> exists])
        /\ execLog' = IF PushLaunches(exists)
                      THEN Append(execLog, [call |-> "push", cmd |-> cmd,
                                            outcome |-> outcome])
                      ELSE execLog
        /\ IF ret = "throw"
           THEN Exit1 /\ UNCHANGED <<idx, results>>
           ELSE /\ results' = RecordResult(results, c.channel, ret = "true")
                /\ idx' = idx + 1
                /\ pc' = "push" /\ exitCode' = exitCode

\* one iteration of the for loop of main, up to run(cmd): pushChannel looks
\* for the source path and either returns false or starts the tool
PushChannel ==
    /\ pc = "push"
    /\ idx < Len(config.channels)
    /\ \E exists \in BOOLEAN :
          IF PushLaunches(exists)
          THEN /\ Launch("push", exists, "pushWait")
               /\ UNCHANGED <<idx, results, probes, execLog, exitCode>>
          ELSE /\ PushChannelEnds(exists, "notStarted")
               /\ UNCHANGED inFlight
    /\ UNCHANGED <<cfgFile, config, butlerOk, dryRun, out, engine, scanVars, clsVars>>

\* the tool started by pushChannel has ended
PushReturn ==
    /\ pc = "pushWait" /\ inFlight # <<>>
    /\ inFlight' = Tail(inFlight)
    /\ \E outcome \in ExecOutcomes : PushChannelEnds(inFlight[1].exists, outcome)
    /\ UNCHANGED <<cfgFile, config, butlerOk, dryRun, out, engine, scanVars, clsVars>>

\* the loop is over: the summary
PSummary ==
    /\ pc = "push"
    /\ idx = Len(config.channels)
    /\ out' = SummaryLines(results)
    /\ pc' = "status"
    /\ UNCHANGED <<cfgFile, config, butlerOk, dryRun, inFlight, idx, results, probes, execLog, exitCode,
                   engine, scanVars, clsVars>>

\* a plausible slip: the run fails when a channel failed
MainExitCodeStrict(res) ==
    IF \E i \in 1..Len(res) : ~res[i].success THEN "exit1" ELSE "exit0"

\* main returns after checkStatus without looking at results again: the
\* process ends with exit code 0
MainExitCode(res) == "exit0"

\* a plausible slip: checkStatus without its try/catch
CheckStatusReturnNoCatch(outcome) ==
    IF outcome = "zero" THEN "returned" ELSE "throw"

\* checkStatus: run throws unless the tool exits zero; the catch logs a
\* warning and checkStatus returns
CheckStatusReturn(outcome) == "returned"

\* checkStatus(config.user, config.game) starts `butler status`
PStatusStart ==
    /\ pc = "status"
    /\ Launch("status", TRUE, "statusWait")
    /\ UNCHANGED <<cfgFile, config, butlerOk, dryRun, idx, results, probes, execLog, out,
                   exitCode, engine, scanVars, clsVars>>

\* `butler status` has ended, then the end of main; a throw out of main would
\* reach main().catch and exit with code 1
PCheckStatus ==
    /\ pc = "statusWait" /\ inFlight # <<>>
    /\ inFlight' = Tail(inFlight)
    /\ \E outcome \in ExecOutcomes :
          /\ execLog' = Append(execLog,
                          [call |-> "status",
                           cmd |-> <<"butler status \"" \o config.user \o "/" \o config.game \o "\"">>,
                           outcome |-> outcome])
          /\ exitCode' = IF CheckStatusReturn(outcome) = "throw"
                         THEN "exit1"
                         ELSE MainExitCode(results)
    /\ pc' = "done"
    /\ UNCHANGED <<cfgFile, config, butlerOk, dryRun, idx, results, probes, out,
                   engine, scanVars, clsVars>>

Next ==
    \/ PCheckArgs \/ PCheckFile \/ PParse \/ PButlerStart \/ PCheckButler \/ PChannels
    \/ PushChannel \/ PushReturn \/ PSummary \/ PStatusStart \/ PCheckStatus

Spec == Init /\ [][Next]_vars

\* main is one sequential thread of control: whenever a step is enabled it is
\* eventually taken, every execSync call being assumed to return or throw
SpecFair == Spec /\ WF_vars(Next)

----------------------------------------------------------------------------
(* Properties of a publish run (Spec) *)

NumChannels == Len(config.channels)

\* the execSync calls made by pushChannel, in order
PushExecs == SelectSeq(execLog, LAMBDA e : e.call = "push")

\* the channels whose source path existed when pushChannel looked
ExistingIdx == {i \in 1..Len(probes) : probes[i].exists}
MissingIdx  == {i \in 1..Len(probes) : ~probes[i].exists}

\* the execSync call made for channel i, the source path of which existed
ExecOf(i) == PushExecs[Cardinality({j \in ExistingIdx : j <= i})]

\* the start of the command line of a push to the channel
PushPrefix(c) ==
    "butler push \"" \o c.sourcePath \o "\" \""
        \o config.user \o "/" \o config.game \o ":" \o c.channel \o "\""

\* the run got past the loop and printed the summary
SummaryReached == pc \in {"status", "statusWait"} \/ (pc = "done" /\ exitCode = "exit0")

Succeeded == {i \in 1..Len(results) : results[i].success}
Failed    == {i \in 1..Len(results) : ~results[i].success}

(* C1: failure isolation. Whatever channels fail (missing source path, or  *)
(* the tool exiting non-zero or not starting), every channel is attempted  *)
(* and recorded in order, and a run that attempted any channel ends only   *)
(* after having attempted and recorded all of them.                        *)
C1_FailureIsolation ==
    /\ Len(results) = Len(probes)
    /\ \A i \in 1..Len(probes) :
          /\ probes[i].channel = config.channels[i].channel
          /\ results[i].channel = config.channels[i].channel
    /\ (pc \in {"status", "statusWait", "done"} /\ Len(probes) > 0) =>
          /\ Len(probes) = NumChannels
          /\ Len(results) = NumChannels

\* a run ended in which the first channel failed for a missing source, the
\* second because the tool failed, and the third was still pushed
C1_Witness ==
    /\ pc = "done" /\ Len(results) = 3
    /\ ~probes[1].exists /\ ~results[1].success
    /\ probes[2].exists /\ ~results[2].success
    /\ results[3].success

C3_SourceMissing ==
    /\ \A i \in MissingIdx :
          /\ i <= Len(results) => ~results[i].success
          /\ \A k \in 1..Len(PushExecs) :
                PushExecs[k].cmd[1] # PushPrefix(config.channels[i])
    /\ Len(PushExecs) = Len(probes) - Cardinality(MissingIdx)
    /\ (SummaryReached /\ \A k \in 1..Len(PushExecs) : PushExecs[k].outcome = "zero") =>
          /\ Len(probes) = NumChannels
          /\ Cardinality(Succeeded) = NumChannels - Cardinality(MissingIdx)
          /\ Cardinality(Failed) = Cardinality(MissingIdx)

\* three targets, exactly one of them missing, the tool succeeding for the others
C3_Witness ==
    /\ SummaryReached /\ NumChannels = 3
    /\ Cardinality(MissingIdx) = 1
    /\ Cardinality(Succeeded) = 2 /\ Cardinality(Failed) = 1
    /\ Len(PushExecs) = 2

C5_SummaryComplete ==
    SummaryReached =>
        /\ Len(out) = NumChannels
        /\ \A i \in 1..NumChannels :
              /\ out[i].channel = config.channels[i].channel
              /\ out[i].text = (IF results[i].success THEN "OK" ELSE "FAILED")
        /\ \A i, j \in 1..Len(out) : i # j => out[i].channel # out[j].channel
        /\ \A i \in 1..NumChannels :
              Cardinality({k \in 1..Len(PushExecs) :
                  PushExecs[k].cmd[1] = PushPrefix(config.channels[i])}) <= 1

\* a summary of three lines with both outcomes in it
C5_Witness ==
    /\ SummaryReached /\ Len(out) = 3
    /\ \E i, j \in 1..3 : out[i].text = "OK" /\ out[j].text = "FAILED"

\* the run got past the structural preconditions: the channel loop was entered
PastPreconditions ==
    pc \in {"push", "pushWait", "status", "statusWait"} \/ (pc = "done" /\ Len(results) > 0)

(* C12: the exit code of a publish run does not depend on the per-channel  *)
(* outcomes: a run that got past the structural preconditions ends with    *)
(* exit code 0 whether all, some or none of its channels failed.           *)
C12_ExitIgnoresChannels ==
    (pc = "done" /\ PastPreconditions) => exitCode = "exit0"

\* a run in which some but not all channels failed has ended with code 0
C12_Witness ==
    /\ pc = "done" /\ exitCode = "exit0"
    /\ Failed # {} /\ Succeeded # {}

\* the execSync calls made by checkStatus, as positions in execLog
StatusIdx == {i \in 1..Len(execLog) : execLog[i].call = "status"}

(* C13: a publish run that reaches the summary makes exactly one status    *)
(* query: none before every channel was attempted and the summary printed, *)
(* one as the last external call of the ended run, whatever the channel    *)
(* outcomes; and the run ends with exit code 0 whatever the query's        *)
(* outcome.                                                                *)
C13_OneStatusQuery ==
    /\ StatusIdx # {} =>
          /\ Len(results) = NumChannels
          /\ out = SummaryLines(results) /\ Len(out) = NumChannels
          /\ pc = "done"
    /\ (pc = "done" /\ PastPreconditions) =>
          /\ StatusIdx = {Len(execLog)}
          /\ exitCode = "exit0"
    /\ (pc = "done" /\ ~PastPreconditions) => StatusIdx = {}

\* every channel failed and the status query failed too: the run ended with code 0
C13_Witness ==
    /\ pc = "done" /\ exitCode = "exit0"
    /\ NumChannels > 1 /\ Succeeded = {}
    /\ StatusIdx = {Len(execLog)}
    /\ execLog[Len(execLog)].outcome # "zero"

\* the outcomes of the `butler -v` calls of checkButler
VersionIdx == {i \in 1..Len(execLog) : execLog[i].call = "version"}

\* the tool could not be started when checkButler tried it
ToolAbsentAtCheck == \E i \in VersionIdx : execLog[i].outcome = "notStarted"

\* channel i was attempted and the tool could not be started for it
NotStartedFor(i) == i \in ExistingIdx /\ ExecOf(i).outcome = "notStarted"

(* C14, as stated: when the tool cannot be started, each channel is        *)
(* recorded as failed, the run reaches the summary and is not aborted      *)
(* before the channels are attempted.                                      *)
C14_Original ==
    (pc = "done" /\ ToolAbsentAtCheck) =>
        /\ Len(results) = NumChannels /\ NumChannels > 0
        /\ Succeeded = {}
        /\ SummaryReached

(* C14, amended: a tool that cannot be run when checkButler tries          *)
(* `butler -v` aborts the run with exit code 1 before any channel is       *)
(* attempted: no result, no push, no summary, no status query. Only a tool *)
(* that passed that check and cannot be started for a channel is a         *)
(* per-channel failure: the channel is recorded as failed and the run goes *)
(* on to the summary.                                                      *)
C14_ToolAbsent ==
    /\ (\E i \in VersionIdx : execLog[i].outcome # "zero") =>
          /\ pc = "done" /\ exitCode = "exit1"
          /\ results = <<>> /\ probes = <<>> /\ out = <<>>
          /\ Len(PushExecs) = 0 /\ StatusIdx = {}
    /\ \A i \in 1..Len(results) : NotStartedFor(i) => ~results[i].success
    /\ (pc = "done" /\ \E i \in 1..Len(results) : NotStartedFor(i)) =>
          /\ Len(results) = NumChannels
          /\ out = SummaryLines(results)
          /\ exitCode = "exit0"

\* a valid configuration with channels, and the tool absent: the run was aborted
C14_Witness ==
    /\ pc = "done" /\ exitCode = "exit1"
    /\ ToolAbsentAtCheck
    /\ cfgFile = "ok" /\ NumChannels > 0
    /\ results = <<>>

\* the configuration is invalid: no path given, no file there, a field
\* missing, or no channel configured
ConfigInvalid ==
    \/ cfgFile \in {"noArg", "notFound"}
    \/ /\ cfgFile = "ok"
       /\ (config.user = Null \/ config.game = Null \/ Len(config.channels) = 0)

(* C15: an invalid configuration is fatal before any channel is attempted: *)
(* with no config path, no file at the path, no user or game field, or no  *)
(* channel configured, the run ends with exit code 1 and has made no push  *)
(* invocation and no status query, and has looked at no source path.       *)
C15_InvalidConfigFatal ==
    ConfigInvalid =>
        /\ pc = "done" => exitCode = "exit1"
        /\ Len(PushExecs) = 0 /\ StatusIdx = {}
        /\ results = <<>> /\ probes = <<>> /\ out = <<>>

\* user and game given, the tool answered, and no channel configured: exit code 1
C15_Witness ==
    /\ pc = "done" /\ exitCode = "exit1"
    /\ cfgFile = "ok" /\ config.user # Null /\ config.game # Null
    /\ Len(config.channels) = 0
    /\ \E i \in VersionIdx : execLog[i].outcome = "zero"

\* the run is in the channel loop: the configuration has user and game, the
\* tool answered and there is at least one channel
InChannelLoop == pc = "push"

\* the run has ended after its summary and its status query
EndedAfterStatus ==
    /\ pc = "done" /\ exitCode = "exit0"
    /\ Len(results) = NumChannels
    /\ out = SummaryLines(results)
    /\ StatusIdx = {Len(execLog)}

(* C20: every external call returning, a publish run that passed the       *)
(* structural preconditions eventually prints the summary of all its       *)
(* channels, from there eventually makes the status query and ends, for    *)
(* every combination of channel outcomes.                                  *)
C20_RunCompletes ==
    /\ InChannelLoop ~> (pc = "status" /\ Len(results) = NumChannels /\ StatusIdx = {})
    /\ (pc = "status") ~> EndedAfterStatus

\* a run of as many channels as the bound allows, most of which failed, has ended
C20_Witness ==
    /\ EndedAfterStatus
    /\ NumChannels = MaxChannels
    /\ Cardinality(Failed) = MaxChannels - 1

(* C21: the external invocations of a publish run are strictly sequential: *)
(* at most one is in flight at any point; while the invocation for channel *)
(* i+1 is in flight, those of channels 1..i have ended and are recorded;   *)
(* while the status query is in flight, every channel's invocation has     *)
(* ended; and nothing is in flight when main is anywhere else.             *)
C21_Sequential ==
    /\ Len(inFlight) <= 1
    /\ inFlight # <<>> <=> pc \in {"butlerWait", "pushWait", "statusWait"}
    /\ pc = "butlerWait" => inFlight[1].call = "version" /\ execLog = <<>>
    /\ pc = "pushWait" =>
          /\ inFlight[1].call = "push"
          /\ idx < NumChannels
          /\ Len(results) = idx /\ Len(probes) = idx
          /\ Len(PushExecs) = Cardinality(ExistingIdx)
          /\ StatusIdx = {}
    /\ pc = "statusWait" =>
          /\ inFlight[1].call = "status"
          /\ Len(results) = NumChannels /\ Len(probes) = NumChannels
          /\ Len(PushExecs) = Cardinality(ExistingIdx)
          /\ out = SummaryLines(results)

\* the invocation for the third channel is in flight after the first two
\* ended, one zero and one non-zero
C21_Witness ==
    /\ pc = "pushWait" /\ idx = 2
    /\ Len(inFlight) = 1 /\ inFlight[1].call = "push"
    /\ Len(PushExecs) = 2
    /\ PushExecs[1].outcome = "zero" /\ PushExecs[2].outcome = "nonzero"

\* the argument that carries a version, and the one that carries an ignore pattern
VersionPiece(v) == " --userversion \"" \o v \o "\""
IgnorePiece(p)  == " --ignore \"" \o p \o "\""

IsVersionPiece(piece) == \E v \in {"1.0.0"} : piece = VersionPiece(v)
IsIgnorePiece(piece)  == \E p \in PatternPool : piece = IgnorePiece(p)

\* the channel the k-th executed push was made for
ChannelOfExec(k) ==
    config.channels[CHOOSE i \in ExistingIdx : Cardinality({j \in ExistingIdx : j <= i}) = k]

(* C22: every executed push is addressed to '<user>/<game>:<channel>' of   *)
(* its channel, carries a --userversion argument exactly when a version is *)
(* configured, and carries one --ignore argument per configured pattern,   *)
(* in the configured order, the pattern unchanged; and all pushes of a run *)
(* carry the same arguments after the address.                             *)
C22_CommandConstruction ==
    /\ \A k \in 1..Len(PushExecs) :
          LET cmd == PushExecs[k].cmd
          IN  /\ cmd[1] = PushPrefix(ChannelOfExec(k))
              /\ SelectSeq(cmd, IsVersionPiece)
                    = (IF config.version # Null THEN <<VersionPiece(config.version)>> ELSE <<>>)
              /\ SelectSeq(cmd, IsIgnorePiece)
                    = [j \in 1..Len(config.ignore.patterns) |->
                          IgnorePiece(config.ignore.patterns[j])]
              /\ \A n \in 2..Len(cmd) :
                    IsVersionPiece(cmd[n]) \/ IsIgnorePiece(cmd[n]) \/ cmd[n] = " --dry-run"
    /\ \A k, l \in 1..Len(PushExecs) : Tail(PushExecs[k].cmd) = Tail(PushExecs[l].cmd)

\* two channels were pushed with a version and two ignore patterns
C22_Witness ==
    /\ pc = "done" /\ Len(PushExecs) >= 2
    /\ config.version # Null
    /\ Len(config.ignore.patterns) = 2
    /\ Len(SelectSeq(PushExecs[2].cmd, IsIgnorePiece)) = 2

----------------------------------------------------------------------------
(* Properties of a scan (SpecScan) *)

\* the immediate subdirectories of the build root, as indexes into children
SubdirIdx == {i \in 1..Len(children) : children[i].isDirectory}

\* what the classifier answers for child i
TagOfChild(i) ==
    DetectPlatform(engine, [path |-> PathJoin(BuildDir, children[i].name),
                            entries |-> children[i].entries])

Classifiable   == {i \in SubdirIdx : TagOfChild(i) # Null}
Unclassifiable == {i \in SubdirIdx : TagOfChild(i) = Null}
DistinctTags   == {TagOfChild(i) : i \in Classifiable}

\* the scan loop has run to its end
ScanReturned == sPc = "done" /\ sArgs.buildDir /\ sArgs.target /\ rootExists /\ rootIsDir

LinesOfKind(lines, k) == SelectSeq(lines, LAMBDA l : l.kind = k)

PushLines == LinesOfKind(cmdOut, "push")

PlatformOrder(eng) == IF eng = "godot" THEN GodotPlatformOrder ELSE RenpyPlatformOrder

\* the place of a push line's channel in the declaration order of PLATFORMS
DeclPos(line) ==
    Min({k \in 1..Len(PlatformOrder(engine)) :
            ChannelOf(engine, PlatformOrder(engine)[k]) = line.dest[3]})

\* the first subdirectory, in enumeration order, classified to the line's channel
FirstMatch(line) ==
    Min({i \in Classifiable : ChannelOf(engine, TagOfChild(i)) = line.dest[3]} \cup {Len(children) + 1})

\* every enumeration order of the same children
Reorderings(kids) ==
    LET n == Len(kids)
    IN  { [i \in 1..n |-> kids[p[i]]] :
            p \in {q \in [1..n -> 1..n] : \A i, j \in 1..n : i # j => q[i] # q[j]} }

(* C6, as stated: push commands come in the declaration order of the       *)
(* platform tags, and every enumeration order of the same subdirectories   *)
(* gives the same sequence of push commands.                               *)
C6_Original ==
    sExit = "exit0" =>
        /\ \A i, j \in 1..Len(PushLines) :
              i < j => DeclPos(PushLines[i]) < DeclPos(PushLines[j])
        /\ \A kids \in Reorderings(children) :
              LinesOfKind(GenerateCommands(engine,
                              ScanAll(engine, <<>>, DirEntries(kids)), Target), "push")
                = PushLines

(* C6, amended: push commands come in the order in which their platform    *)
(* tags were first matched while enumerating the subdirectories (the       *)
(* insertion order of the mapping), one command per matched tag.           *)
C6_FirstMatchOrder ==
    sExit = "exit0" =>
        /\ \A i \in 1..Len(PushLines) : FirstMatch(PushLines[i]) \in Classifiable
        /\ \A i, j \in 1..Len(PushLines) :
              i < j => FirstMatch(PushLines[i]) < FirstMatch(PushLines[j])
        /\ Len(PushLines) = Cardinality(DistinctTags)

\* commands were generated in an order that is not the declaration order
C6_Witness ==
    /\ sExit = "exit0"
    /\ \E i, j \in 1..Len(PushLines) :
          i < j /\ DeclPos(PushLines[i]) > DeclPos(PushLines[j])

(* C7, as stated: with N classifiable and M unclassifiable immediate       *)
(* subdirectories the mapping has exactly N entries, M directories are     *)
(* reported unmatched and N + M is the number of immediate subdirectories, *)
(* also when several subdirectories classify to the same tag.              *)
C7_Original ==
    ScanReturned =>
        /\ Len(platforms) = Cardinality(Classifiable)
        /\ Len(LinesOfKind(scanLog, "unknown")) = Cardinality(Unclassifiable)
        /\ Cardinality(Classifiable) + Cardinality(Unclassifiable) = Cardinality(SubdirIdx)

(* C7, amended: the mapping has one entry per distinct tag among the N     *)
(* classifiable subdirectories (N entries only when their tags differ), N  *)
(* directories are reported matched, M are reported unknown, and N + M is  *)
(* the number of immediate subdirectories.                                 *)
C7_Conservation ==
    ScanReturned =>
        /\ Len(platforms) = Cardinality(DistinctTags)
        /\ \A i, j \in 1..Len(platforms) : i # j => platforms[i].key # platforms[j].key
        /\ Len(LinesOfKind(scanLog, "matched")) = Cardinality(Classifiable)
        /\ Len(LinesOfKind(scanLog, "unknown")) = Cardinality(Unclassifiable)
        /\ Len(scanLog) = Cardinality(SubdirIdx)

\* a scan ended with two subdirectories of one tag and an unclassifiable one
C7_Witness ==
    /\ ScanReturned
    /\ Cardinality(Classifiable) = 2 /\ Cardinality(DistinctTags) = 1
    /\ Cardinality(Unclassifiable) = 1
    /\ Len(platforms) = 1

\* the command lines among the printed lines
CommandLines == SelectSeq(cmdOut, LAMBDA l : l.kind \in {"push", "status"})

\* a required positional argument is missing
ArgMissing == ~sArgs.buildDir \/ ~sArgs.target

FixedChannel(tag) ==
    CASE tag = "web"                -> "html5"
      [] tag \in {"macos", "mac"}   -> "osx"
      [] tag \in {"windows", "pc"}  -> "windows"
      [] tag = "linux"              -> "linux"
      [] tag = "android"            -> "android"

\* the path the scan gives child i
ChildPath(i) == PathJoin(BuildDir, children[i].name)

\* the places of the lines of the kind among the printed lines
PlacesOfKind(k) == {i \in 1..Len(cmdOut) : cmdOut[i].kind = k}

Without(kids, u) == SubSeq(kids, 1, u - 1) \o SubSeq(kids, u + 1, Len(kids))

\* the place of child i among the subdirectories, which is its line in the scan log
LogPlace(i) == Cardinality({j \in SubdirIdx : j <= i})

\* the scan log without its line k
LogWithout(k) == SubSeq(scanLog, 1, k - 1) \o SubSeq(scanLog, k + 1, Len(scanLog))

\* the lines the loop prints for the entries
LogOf(eng, entries) == [k \in 1..Len(entries) |-> ScanStepLine(eng, entries[k])]

(* C19: an unclassifiable subdirectory neither halts nor alters the scan:  *)
(* the loop reaches every subdirectory, the unclassifiable one is reported *)
(* unknown on its one line, it is the value of no mapping entry and the    *)
(* source of no push command, and the mapping, the other log lines and the *)
(* commands are those of the same root without it.                         *)
C19_UnknownSkipped ==
    ScanReturned =>
        /\ Len(scanLog) = Cardinality(SubdirIdx)
        /\ \A u \in Unclassifiable :
              /\ scanLog[LogPlace(u)].kind = "unknown"
              /\ scanLog[LogPlace(u)].name = LoggedName(engine, [path |-> ChildPath(u)])
              /\ \A e \in 1..Len(platforms) : platforms[e].value # ChildPath(u)
              /\ \A l \in 1..Len(PushLines) : PushLines[l].src # ChildPath(u)
              /\ platforms = ScanAll(engine, <<>>, DirEntries(Without(children, u)))
              /\ LogWithout(LogPlace(u)) = LogOf(engine, DirEntries(Without(children, u)))
              /\ sExit = "exit0" =>
                    cmdOut = GenerateCommands(engine,
                                ScanAll(engine, <<>>, DirEntries(Without(children, u))), Target)

\* an unclassifiable subdirectory between two classified ones, and commands printed
C19_Witness ==
    /\ ScanReturned /\ sExit = "exit0"
    /\ \E u \in Unclassifiable : \E a, b \in Classifiable :
          a < u /\ u < b /\ TagOfChild(a) # TagOfChild(b)
    /\ Len(PushLines) = 2

\* the subdirectories classified to the tag, as places in the enumeration
ChildrenOfTag(t) == {i \in Classifiable : TagOfChild(i) = t}

\* the largest element of a non-empty set of numbers
Max(S) == CHOOSE x \in S : \A y \in S : y <= x

(* C23: the scan result holds at most one path per tag: with several       *)
(* subdirectories of one tag the mapping keeps the path of the last one    *)
(* enumerated, each of them having been reported as matched; the tags      *)
(* stand in the order of their first occurrences; and exactly one push     *)
(* command is generated per tag, from the kept path.                       *)
C23_LastWins ==
    ScanReturned =>
        /\ \A e, f \in 1..Len(platforms) : e # f => platforms[e].key # platforms[f].key
        /\ \A e \in 1..Len(platforms) :
              /\ ChildrenOfTag(platforms[e].key) # {}
              /\ platforms[e].value = ChildPath(Max(ChildrenOfTag(platforms[e].key)))
        /\ \A e, f \in 1..Len(platforms) :
              e < f => Min(ChildrenOfTag(platforms[e].key)) < Min(ChildrenOfTag(platforms[f].key))
        /\ \A i \in Classifiable :
              /\ scanLog[LogPlace(i)].kind = "matched"
              /\ scanLog[LogPlace(i)].platform = TagOfChild(i)
        /\ sExit = "exit0" =>
              \A t \in DistinctTags :
                 \E l \in 1..Len(PushLines) :
                    /\ PushLines[l].dest = <<Target, ":", ChannelOf(engine, t)>>
                    /\ PushLines[l].src = ChildPath(Max(ChildrenOfTag(t)))
                    /\ \A n \in 1..Len(PushLines) :
                          PushLines[n].dest = PushLines[l].dest => n = l

\* two subdirectories of one tag with one of another tag between them: the
\* tag stands first with the path of the later one, and two pushes are printed
C23_Witness ==
    /\ ScanReturned /\ sExit = "exit0"
    /\ \E a, b, c \in Classifiable :
          /\ a < b /\ b < c
          /\ TagOfChild(a) = TagOfChild(c) /\ TagOfChild(a) # TagOfChild(b)
          /\ platforms[1].key = TagOfChild(a)
          /\ platforms[1].value = ChildPath(c)
    /\ Len(PushLines) = 2

----------------------------------------------------------------------------
(* The signals a directory listing can carry, as the specification names   *)
(* them (used by the properties below, not by the model of the code)       *)

HasIndexHtml(dir) == \E i \in 1..Len(dir.entries) : dir.entries[i].name = FIndexHtml

HasExe(dir) == \E i \in 1..Len(dir.entries) : EndsWith(dir.entries[i].name, ExtExe)

\* a .app bundle, or a Mac-style archive: a .zip whose name says mac or osx
HasMacArchive(dir) ==
    \E i \in 1..Len(dir.entries) :
        LET f == dir.entries[i].name
        IN  \/ EndsWith(f, ExtApp)
            \/ EndsWith(f, ExtZip) /\ (Includes(f, StrMac) \/ Includes(f, StrOsx))

HasAndroidPkg(dir) ==
    \E i \in 1..Len(dir.entries) :
        EndsWith(dir.entries[i].name, ExtApk) \/ EndsWith(dir.entries[i].name, ExtAab)

HasExtlessFile(dir) ==
    \E i \in 1..Len(dir.entries) :
        ~Includes(dir.entries[i].name, StrDot) /\ dir.entries[i].isFile

\* the tag of the highest-priority signal present: web > windows > macOS > android > linux
GodotPriorityTag(dir) ==
    IF HasIndexHtml(dir) THEN "web"
    ELSE IF HasExe(dir) THEN "windows"
    ELSE IF HasMacArchive(dir) THEN "macos"
    ELSE IF HasAndroidPkg(dir) THEN "android"
    ELSE IF HasExtlessFile(dir) THEN "linux"
    ELSE Null

Classified == cResult \notin {"idle", "pending"}

(* C8: the Godot classifier returns, for every file listing, the tag of the *)
(* highest-priority signal present, in the order web > windows > macOS >   *)
(* android > linux.                                                        *)
C8_GodotPriority ==
    (engine = "godot" /\ Classified) => cResult = GodotPriorityTag(cDir)

(* C9: in both classifiers a directory whose listing contains index.html   *)
(* is classified web, whatever other signals are present.                  *)
C9_WebDominates ==
    (Classified /\ HasIndexHtml(cDir)) => cResult = "web"

\* a stronger signal that the Godot classifier accepts: index.html, an .exe,
\* the .app / first-.zip check, or an Android package
GodotStrongerMatched(dir) ==
    \/ HasIndexHtml(dir) \/ HasExe(dir) \/ HasAndroidPkg(dir)
    \/ GodotMacCheck(Names(dir.entries))

SignatureMatched(eng, dir) ==
    IF eng = "godot"
    THEN GodotStrongerMatched(dir) \/ HasExtlessFile(dir)
    ELSE \E k \in 1..Len(RenpyPlatformOrder) :
            RenpyCheck(RenpyPlatformOrder[k], Names(dir.entries))

\* the same listing under another directory name
Renamed(dir, n) == [path |-> PathJoin(RootBuild, n), entries |-> dir.entries]

\* the substrings looked for in a directory name, in order, with their tags
NameHints ==
    << [needle |-> StrWin,   tag |-> "pc"],
       [needle |-> StrMac,   tag |-> "mac"],
       [needle |-> StrLinux, tag |-> "linux"],
       [needle |-> StrWeb,   tag |-> "web"] >>

\* the places of the hints found in the lower-cased basename
HintsIn(dirPath) ==
    {k \in 1..Len(NameHints) : Includes(ToLowerCase(Basename(dirPath)), NameHints[k].needle)}

\* the tag of the first hint found, or none
FirstHintTag(dirPath) ==
    IF HintsIn(dirPath) = {} THEN Null ELSE NameHints[Min(HintsIn(dirPath))].tag

\* the result does not depend on the name of the directory
NameIrrelevant ==
    \A n \in DirNamePool : DetectPlatform(engine, Renamed(cDir, n)) = cResult

====
